---- MODULE Spec2Model ----
(***************************************************************************)
(* beamsplitter code generators: EmitJavaScript, EditTypeScript (the       *)
(* JavaScript generator file) and EditJava (tools/beamsplitter/java.go).   *)
(*                                                                         *)
(* A file is a sequence of tokens.  The tokens "x", CR, LF and the marker  *)
(* token stand for single bytes / the marker substring of a pre-existing   *)
(* file; everything a generator writes in one call (a literal chunk, the   *)
(* output of one template execution) is one further token.                 *)
(***************************************************************************)
EXTENDS Integers, Sequences, FiniteSets, TLC

VARIABLES
    op,           \* the generator function this run executes
    definitions,  \* its []TypeDefinition argument: the kind of each definition
    namespace,    \* its namespace argument ("" for EditJava, which has none)
    disk,         \* path -> [exists, data]
    pc,           \* position in the function body
    codelines,    \* the local codelines of EditJava / EditTypeScript
    i,            \* index of the running loop
    art,          \* EmitJavaScript: the block (1..3) being executed
    stdout,       \* lines printed by fmt.Println
    calls,        \* history: every call of the generate closure, in order
    orig,         \* history: the disk when the very first run started
    prev,         \* history: the target file as the previous run left it
    runs,         \* number of the current run (1 = first)
    wrFailed,     \* history: some WriteString returned an error
    ioFaults,     \* environment: file and template operations may fail
    cppname,      \* the C++ name a template hands to a function of the FuncMap
    translation,  \* the function called ("" = none yet) and what it returned
    suspended,    \* the generator functions that run concurrently with op
    view,         \* a com.google.android.filament.View object
    manager       \* mManager of FNodeManager: the entity of each instance

vars == <<op, definitions, namespace, disk, pc, codelines, i, art, stdout,
          calls, orig, prev, runs, wrFailed, ioFaults, cppname, translation,
          suspended, view, manager>>

-----------------------------------------------------------------------------
\* Bounds of the model.

\* longest pre-existing file, in tokens, of the patcher specification
MaxFileLen == 5
\* largest Type Model of the patcher specification
MaxPatchDefs == 1
\* longest pre-existing file, in tokens, of the general specification
MaxSeedLen == 2
\* largest Type Model of the general specification
MaxDefs == 2
\* number of successive runs of a patcher on the same file
MaxRuns == 2
\* longest C++ name handed to the name functions, in pieces
MaxNamePieces == 5
\* longest pre-existing file, in tokens, that holds an overlong line
MaxLongFileLen == 3
\* largest native handle (0 is the null handle)
MaxNativeHandle == 2
\* largest number of node components registered with a manager
MaxComponents == 4

-----------------------------------------------------------------------------
\* Tokens and files.

CR == "\r"
LF == "\n"
\* the marker substring, as one token
CodelineMarker == <<"M">>

\* the bytes a pre-existing file is made of
Alphabet == {"x", CR, LF, "M"}
\* a run of bytes, none of them a newline or part of the marker, as long as
\* the largest buffer of a bufio.Scanner (bufio.MaxScanTokenSize)
LongRun == "x..."

RECURSIVE SeqsUpTo(_, _)
SeqsUpTo(S, n) ==
    IF n = 0 THEN {<<>>}
    ELSE LET shorter == SeqsUpTo(S, n - 1)
         IN  shorter \cup {Append(s, e) : s \in {t \in shorter : Len(t) = n - 1}, e \in S}

\* the files in which some line does not fit the buffer of a scanner
LongLineFiles ==
    {f \in SeqsUpTo(Alphabet \cup {LongRun}, MaxLongFileLen) :
        \E k \in 1..Len(f) : f[k] = LongRun}

InputFiles(n) == SeqsUpTo(Alphabet, n) \cup LongLineFiles

NoFile == [exists |-> FALSE, data |-> <<>>]
FileOf(data) == [exists |-> TRUE, data |-> data]

\* strings.Contains
Contains(s, sub) ==
    \E k \in 0..(Len(s) - Len(sub)) : SubSeq(s, k + 1, k + Len(sub)) = sub

IsPrefixOf(p, s) == Len(p) =< Len(s) /\ SubSeq(s, 1, Len(p)) = p

\* bufio.dropCR: one trailing carriage return is removed
DropCR(line) ==
    IF Len(line) > 0 /\ line[Len(line)] = CR THEN SubSeq(line, 1, Len(line) - 1)
    ELSE line

\* the buffer of the scanner is full before the line has ended
TooLong(line) == \E k \in 1..Len(line) : line[k] = LongRun

\* The tokens bufio.Scanner (ScanLines) returns for a file: the text between
\* newlines, without the newline and without one trailing CR; a last
\* non-empty line needs no newline.  At a line that does not fit the buffer
\* Scan returns false (bufio.ErrTooLong) as it does at the end of the file.
RECURSIVE ScanLines(_)
ScanLines(data) ==
    IF data = <<>> THEN <<>>
    ELSE IF \E k \in 1..Len(data) : data[k] = LF
         THEN LET k == CHOOSE k \in 1..Len(data) :
                         data[k] = LF /\ \A j \in 1..(k - 1) : data[j] # LF
              IN  IF TooLong(SubSeq(data, 1, k - 1)) THEN <<>>
                  ELSE <<DropCR(SubSeq(data, 1, k - 1))>>
                           \o ScanLines(SubSeq(data, k + 1, Len(data)))
         ELSE IF TooLong(data) THEN <<>> ELSE <<DropCR(data)>>

\* variant: the loop goes on to the last line that holds the marker
MarkerIndex_Last(lines) ==
    IF \E k \in 1..Len(lines) : Contains(lines[k], CodelineMarker)
    THEN CHOOSE k \in 1..Len(lines) :
             /\ Contains(lines[k], CodelineMarker)
             /\ \A j \in (k + 1)..Len(lines) : ~Contains(lines[j], CodelineMarker)
    ELSE 0

\* The scanning loop: index of the line at which the loop breaks, 0 when the
\* scanner is exhausted first.
MarkerIndex(lines) ==
    IF \E k \in 1..Len(lines) : Contains(lines[k], CodelineMarker)
    THEN CHOOSE k \in 1..Len(lines) :
             /\ Contains(lines[k], CodelineMarker)
             /\ \A j \in 1..(k - 1) : ~Contains(lines[j], CodelineMarker)
    ELSE 0

\* variant: a missing marker is tolerated
FoundMarker_Tolerant(data) == TRUE

\* foundMarker when the loop ends
FoundMarker(data) == MarkerIndex(ScanLines(data)) # 0

\* variant: the line is appended before it is tested for the marker
ScannedCodelines_AppendFirst(data) ==
    LET lines == ScanLines(data)
        m == MarkerIndex(lines)
    IN  IF m = 0 THEN lines ELSE SubSeq(lines, 1, m)

\* codelines when the loop ends: the lines appended before the break
ScannedCodelines(data) ==
    LET lines == ScanLines(data)
        m == MarkerIndex(lines)
    IN  IF m = 0 THEN lines ELSE SubSeq(lines, 1, m - 1)

-----------------------------------------------------------------------------
\* The Type Model.

Kinds == {"Struct", "Enum"}
Models(n) == SeqsUpTo(Kinds, n)
Namespaces == {"", "ns"}

\* the qualified name of the k-th definition (names are unique in a model)
DefName(k) == "pkg::T" \o ToString(k)

\* variant: the definitions are visited last to first
RangeOrder_Reversed(n) == [k \in 1..n |-> n + 1 - k]

\* the order in which `for _, definition := range definitions` visits them
RangeOrder(n) == [k \in 1..n |-> k]

-----------------------------------------------------------------------------
\* Paths, sections and rendering.

EmitOp == "EmitJavaScript"
TsOp == "EditTypeScript"
JavaOp == "EditJava"
EditOps == {TsOp, JavaOp}
Ops == {EmitOp} \cup EditOps

\* the classname argument of EditJava
Classname == "View"

JsBindingsPath == "jsbindings_generated.cpp"
JsEnumsPath == "jsenums_generated.cpp"
JsExtensionsPath == "extensions_generated.js"
TsPath == "filament.d.ts"
JavaPath == Classname \o ".java"
Paths == {JsBindingsPath, JsEnumsPath, JsExtensionsPath, TsPath, JavaPath}

\* variant: both Edit functions patch the declaration file
PathOf_Shared(o) == TsPath

\* the file an Edit function patches
PathOf(o) == IF o = JavaOp THEN JavaPath ELSE TsPath

\* variant: the enum block also has a case for structs
EmitBlocks_NoFilter ==
    << [path |-> JsBindingsPath, header |-> "JsBindingsHeader",
        cases |-> [Struct |-> "JsBindingsStruct", Enum |-> ""],
        footer |-> "JsBindingsFooter"],
       [path |-> JsEnumsPath, header |-> "JsEnumsHeader",
        cases |-> [Struct |-> "JsBindingsStruct", Enum |-> "JsEnum"],
        footer |-> "JsEnumsFooter"],
       [path |-> JsExtensionsPath, header |-> "JsExtensionsHeader",
        cases |-> [Struct |-> "JsExtension", Enum |-> ""],
        footer |-> "JsExtensionsFooter"] >>

\* the three blocks of EmitJavaScript: path, header, the type switch of the
\* loop (kind -> section; a kind without a case is skipped) and footer
EmitBlocks ==
    << [path |-> JsBindingsPath, header |-> "JsBindingsHeader",
        cases |-> [Struct |-> "JsBindingsStruct", Enum |-> ""],
        footer |-> "JsBindingsFooter"],
       [path |-> JsEnumsPath, header |-> "JsEnumsHeader",
        cases |-> [Struct |-> "", Enum |-> "JsEnum"],
        footer |-> "JsEnumsFooter"],
       [path |-> JsExtensionsPath, header |-> "JsExtensionsHeader",
        cases |-> [Struct |-> "JsExtension", Enum |-> ""],
        footer |-> "JsExtensionsFooter"] >>

\* the type switch of the Edit loops
EditCases(o) ==
    IF o = JavaOp THEN [Struct |-> "Struct", Enum |-> "Enum"]
    ELSE [Struct |-> "TsStruct", Enum |-> "TsEnum"]

\* the template the closure returned by createJsCodeGenerator executes
JsTemplateFor(section) == section

\* the template the closure returned by createJavaCodeGenerator executes
JavaTemplateFor(section) == "CppStructReader"

TemplateFor(o, section) ==
    IF o = JavaOp THEN JavaTemplateFor(section) ELSE JsTemplateFor(section)

\* What a successful ExecuteTemplate writes: one token, fixed by the template,
\* the definition and (for the JavaScript generator, whose template functions
\* close over the prefixes) the namespace.
Rendered(o, template, def, ns) ==
    IF o = JavaOp THEN template \o "(" \o def \o ")"
    ELSE template \o "[" \o ns \o "](" \o def \o ")"

\* what a failing ExecuteTemplate may already have written
PartialOutput == "<partial>"

\* outcomes of one ExecuteTemplate
RenderOutcomes == IF ioFaults THEN {"ok", "error", "errorAfterOutput"} ELSE {"ok"}

\* outcomes of os.Create, template.Must(ParseFiles) and WriteString
IoOutcomes == IF ioFaults THEN BOOLEAN ELSE {TRUE}

\* variant: the error of ExecuteTemplate is dropped
Generate_IgnoresError(o, path, data, section, def, ns, outcome) ==
    LET template == IF o = "EditJava" THEN "CppStructReader" ELSE section IN
    [data  |-> CASE outcome = "ok" -> Append(data, Rendered(o, template, def, ns))
                 [] outcome = "errorAfterOutput" -> Append(data, PartialOutput)
                 [] OTHER -> data,
     call  |-> [path |-> path, section |-> section, executed |-> template,
                def |-> def, ok |-> outcome = "ok"],
     fatal |-> FALSE]

\* The generate closure: executes a template on the file and reports failure.
\* Returns the new contents of the file, the call as recorded in the history,
\* and whether log.Fatal was reached.
Generate(o, path, data, section, def, ns, outcome) ==
    LET template == TemplateFor(o, section) IN
    [data  |-> CASE outcome = "ok" -> Append(data, Rendered(o, template, def, ns))
                 [] outcome = "errorAfterOutput" -> Append(data, PartialOutput)
                 [] OTHER -> data,
     call  |-> [path |-> path, section |-> section, executed |-> template,
                def |-> def, ok |-> outcome = "ok"],
     fatal |-> outcome # "ok"]

\* variant: an existing file is opened without truncation
Created_NoTruncate(file) == IF file.exists THEN file ELSE FileOf(<<>>)

\* os.Create: the file exists afterwards and is empty
Created(file) == FileOf(<<>>)

\* file.WriteString, whose result the callers discard
WriteString(data, s, ok) == IF ok THEN data \o s ELSE data

\* variant: the marker is written without the comment around it
MarkerLine_Bare(o) == CodelineMarker \o <<LF>>

\* the marker line the Edit functions write
MarkerLine(o) ==
    IF o = JavaOp THEN <<"    // ">> \o CodelineMarker \o <<LF>>
    ELSE <<"// ">> \o CodelineMarker \o <<LF>>

\* variant: the class is closed twice
JavaClosing_Twice == <<"}", LF, "}", LF>>

\* the closing line EditJava writes
JavaClosing == <<"}", LF>>

Confirmation(o, path) ==
    IF o = EmitOp THEN "Generated " \o path ELSE "Edited " \o path

-----------------------------------------------------------------------------
\* The FuncMap of createJsCodeGenerator.  A name is a string.

\* strings.HasPrefix
HasPrefix(s, prefix) == Len(prefix) =< Len(s) /\ SubSeq(s, 1, Len(prefix)) = prefix

\* strings.Index, counted from 1; 0 when substr does not occur
Index(s, substr) ==
    LET at == {k \in 1..(Len(s) - Len(substr) + 1) :
                  SubSeq(s, k, k + Len(substr) - 1) = substr}
    IN  IF at = {} THEN 0 ELSE CHOOSE k \in at : \A j \in at : k =< j

\* strings.Count: the non-overlapping occurrences of a non-empty substr
RECURSIVE Count(_, _)
Count(s, substr) ==
    LET k == Index(s, substr)
    IN  IF k = 0 THEN 0
        ELSE 1 + Count(SubSeq(s, k + Len(substr), Len(s)), substr)

\* strings.Replace: the first n non-overlapping occurrences of old become
\* new; every occurrence when n < 0
RECURSIVE Replace(_, _, _, _)
Replace(s, old, new, n) ==
    LET k == Index(s, old)
    IN  IF n = 0 \/ k = 0 THEN s
        ELSE SubSeq(s, 1, k - 1) \o new
                 \o Replace(SubSeq(s, k + Len(old), Len(s)), old, new, n - 1)

\* strings.ReplaceAll
ReplaceAll(s, old, new) == Replace(s, old, new, -1)

\* variant: the delimiter is appended to the empty namespace too
jsPrefix_Bare(ns) == ns \o "$"

\* jsPrefix of createJsCodeGenerator(ns)
jsPrefix(ns) == IF ns # "" THEN ns \o "$" ELSE ""

\* classPrefix of createJsCodeGenerator(ns)
classPrefix(ns) == IF ns # "" THEN ns \o ".prototype." ELSE ""

\* cppPrefix of createJsCodeGenerator(ns)
cppPrefix(ns) == IF ns # "" THEN ns \o "::" ELSE ""

\* variant: the delimiters are dropped
qualifiedtype_Unscoped(typename) == ReplaceAll(typename, "::", "")

\* variant: only the first delimiter is replaced
qualifiedtype_FirstOnly(typename) == Replace(typename, "::", "$", 1)

qualifiedtype(typename) == ReplaceAll(typename, "::", "$")

\* variant: the last delimiter is left as it is
qualifiedvalue_KeepsLast(ns, name) ==
    LET count == Count(name, "::")
        name1 == IF count > 0 THEN "Filament." \o jsPrefix(ns) \o name ELSE name
    IN  Replace(name1, "::", "$", count - 1)

\* variant: the root and the prefix are prepended to every name
qualifiedvalue_AlwaysRooted(ns, name) ==
    LET count == Count(name, "::")
        name1 == "Filament." \o jsPrefix(ns) \o name
        name2 == Replace(name1, "::", "$", count - 1)
    IN  Replace(name2, "::", ".", 1)

\* variant: every delimiter becomes the flat scoping character
qualifiedvalue_AllFlat(ns, name) ==
    LET count == Count(name, "::")
        name1 == IF count > 0 THEN "Filament." \o jsPrefix(ns) \o name ELSE name
    IN  Replace(name1, "::", "$", count)

qualifiedvalue(ns, name) ==
    LET count == Count(name, "::")
        name1 == IF count > 0 THEN "Filament." \o jsPrefix(ns) \o name ELSE name
        name2 == Replace(name1, "::", "$", count - 1)
    IN  Replace(name2, "::", ".", 1)

\* the switch of tstype
tstypeSwitch(ns, cpptype) ==
    CASE cpptype \in {"float", "uint8_t", "uint32_t", "uint16_t"} -> "number"
      [] cpptype = "bool" -> "boolean"
      [] cpptype = "LinearColorA" -> "float4"
      [] cpptype = "LinearColor" -> "float3"
      [] OTHER -> jsPrefix(ns) \o ReplaceAll(cpptype, "::", "$")

\* variant: bool is a number like the integers
tstype_BoolAsNumber(ns, cpptype) ==
    IF HasPrefix(cpptype, "math::") THEN SubSeq(cpptype, 7, Len(cpptype))
    ELSE IF cpptype = "bool" THEN "number" ELSE tstypeSwitch(ns, cpptype)

\* variant: the switch is applied to what follows "math::"
tstype_MathThenSwitch(ns, cpptype) ==
    IF HasPrefix(cpptype, "math::")
    THEN tstypeSwitch("", SubSeq(cpptype, 7, Len(cpptype)))
    ELSE tstypeSwitch(ns, cpptype)

\* variant: the default case leaves the prefix out
tstype_NoPrefix(ns, cpptype) ==
    IF HasPrefix(cpptype, "math::") THEN SubSeq(cpptype, 7, Len(cpptype))
    ELSE tstypeSwitch("", cpptype)

tstype(ns, cpptype) ==
    IF HasPrefix(cpptype, "math::") THEN SubSeq(cpptype, 7, Len(cpptype))
    ELSE tstypeSwitch(ns, cpptype)

NoTranslation == [fn |-> "", out |-> ""]

\* no View object has been constructed
NoView == [mNativeObject |-> 0, mName |-> "", mScene |-> 0, op |-> "",
           thrown |-> FALSE, natives |-> <<>>, cleared |-> FALSE]

-----------------------------------------------------------------------------
\* Initial states: one run of one generator function, on a disk that holds
\* whatever an earlier build left there.

\* content of a stale generated file that EmitJavaScript overwrites
StaleFile == FileOf(<<"x", LF>>)

\* a hand-written file: one line of its author's and the marker line
SeedFile == FileOf(<<"// keep", LF, "// ">> \o CodelineMarker \o <<LF>>)

\* a hand-written file saved with CR LF line ends
CrLfSeedFile == FileOf(<<"// keep", CR, LF, "// ">> \o CodelineMarker \o <<CR, LF>>)

InitialDisks(o, n) ==
    IF o \in EditOps
    THEN {[p \in Paths |-> IF p = PathOf(o) THEN f ELSE NoFile] :
              f \in {NoFile, SeedFile, CrLfSeedFile}
                       \cup {FileOf(d) : d \in InputFiles(n)}}
    ELSE {[p \in Paths |-> IF p \in {JsBindingsPath, JsEnumsPath, JsExtensionsPath}
                           THEN f ELSE NoFile] : f \in {NoFile, StaleFile}}

Start(maxLen, maxDefs, faults) ==
    /\ op \in Ops
    /\ definitions \in Models(maxDefs)
    /\ namespace \in (IF op = JavaOp THEN {""} ELSE Namespaces)
    /\ disk \in InitialDisks(op, maxLen)
    /\ ioFaults = faults
    /\ orig = disk
    /\ pc = "start"
    /\ codelines = <<>>
    /\ i = 0
    /\ art = 0
    /\ stdout = <<>>
    /\ calls = <<>>
    /\ prev = <<>>
    /\ runs = 1
    /\ wrFailed = FALSE
    /\ cppname = ""
    /\ translation = NoTranslation
    /\ suspended = {}
    /\ view = NoView
    /\ manager = <<>>

\* any generator, small files, operations that may fail
Init == Start(MaxSeedLen, MaxDefs, TRUE)

\* the patchers on every file up to MaxFileLen, operations that succeed
InitPatch == Start(MaxFileLen, MaxPatchDefs, FALSE)

Target == PathOf(op)

-----------------------------------------------------------------------------
\* EditJava / EditTypeScript.

\* os.Open fails: log.Fatal
OpenSourceFails ==
    /\ op \in EditOps /\ pc = "start"
    /\ ~disk[Target].exists
    /\ pc' = "fatal"
    /\ UNCHANGED <<suspended, view, manager, cppname, translation, ioFaults, op, definitions, namespace, disk, codelines, i, art, stdout,
                   calls, orig, prev, runs, wrFailed>>

\* os.Open succeeds and the scanning loop runs to its end; log.Fatal when
\* foundMarker is still false
ScanSource ==
    /\ op \in EditOps /\ pc = "start"
    /\ disk[Target].exists
    /\ codelines' = ScannedCodelines(disk[Target].data)
    /\ pc' = IF FoundMarker(disk[Target].data) THEN "create" ELSE "fatal"
    /\ UNCHANGED <<suspended, view, manager, cppname, translation, ioFaults, op, definitions, namespace, disk, i, art, stdout,
                   calls, orig, prev, runs, wrFailed>>

\* os.Create of the target, and the two defers
CreateTarget ==
    /\ op \in EditOps /\ pc = "create"
    /\ \E ok \in IoOutcomes :
          IF ok
          THEN /\ disk' = [disk EXCEPT ![Target] = Created(@)]
               /\ pc' = "prefix"
               /\ i' = 1
          ELSE /\ pc' = "fatal"
               /\ UNCHANGED <<disk, i>>
    /\ UNCHANGED <<suspended, view, manager, cppname, translation, ioFaults, op, definitions, namespace, codelines, art, stdout,
                   calls, orig, prev, runs, wrFailed>>

\* one iteration of the loop over codelines: two WriteString calls
WriteCodeline ==
    /\ op \in EditOps /\ pc = "prefix"
    /\ i =< Len(codelines)
    /\ \E ok1, ok2 \in IoOutcomes :
          /\ disk' = [disk EXCEPT ![Target].data =
                         WriteString(WriteString(@, codelines[i], ok1), <<LF>>, ok2)]
          /\ wrFailed' = (wrFailed \/ ~ok1 \/ ~ok2)
    /\ i' = i + 1
    /\ UNCHANGED <<suspended, view, manager, cppname, translation, ioFaults, op, definitions, namespace, pc, codelines, art, stdout,
                   calls, orig, prev, runs>>

\* the marker line is written after the last codeline
WriteMarker ==
    /\ op \in EditOps /\ pc = "prefix"
    /\ i > Len(codelines)
    /\ \E ok \in IoOutcomes :
          /\ disk' = [disk EXCEPT ![Target].data = WriteString(@, MarkerLine(op), ok)]
          /\ wrFailed' = (wrFailed \/ ~ok)
    /\ pc' = "generator"
    /\ UNCHANGED <<suspended, view, manager, cppname, translation, ioFaults, op, definitions, namespace, codelines, i, art, stdout,
                   calls, orig, prev, runs>>

\* createJavaCodeGenerator / createJsCodeGenerator: template.Must panics when
\* the template file cannot be parsed; the panic runs the deferred calls
CreateEditGenerator ==
    /\ op \in EditOps /\ pc = "generator"
    /\ \E ok \in IoOutcomes :
          IF ok
          THEN /\ pc' = "defs"
               /\ i' = 1
               /\ UNCHANGED stdout
          ELSE /\ pc' = "panic"
               /\ stdout' = Append(stdout, Confirmation(op, Target))
               /\ UNCHANGED i
    /\ UNCHANGED <<suspended, view, manager, cppname, translation, ioFaults, op, definitions, namespace, disk, codelines, art,
                   calls, orig, prev, runs, wrFailed>>

\* one iteration of the loop over definitions
GenerateDefinition ==
    /\ op \in EditOps /\ pc = "defs"
    /\ i =< Len(definitions)
    /\ \E outcome \in RenderOutcomes :
          LET d == RangeOrder(Len(definitions))[i]
              r == Generate(op, Target, disk[Target].data,
                            EditCases(op)[definitions[d]], DefName(d), namespace, outcome)
          IN  /\ disk' = [disk EXCEPT ![Target].data = r.data]
              /\ calls' = Append(calls, r.call)
              /\ pc' = IF r.fatal THEN "fatal" ELSE "defs"
    /\ i' = i + 1
    /\ UNCHANGED <<suspended, view, manager, cppname, translation, ioFaults, op, definitions, namespace, codelines, art, stdout,
                   orig, prev, runs, wrFailed>>

\* EditJava writes the closing brace after the loop
WriteClosing ==
    /\ op = JavaOp /\ pc = "defs"
    /\ i > Len(definitions)
    /\ \E ok \in IoOutcomes :
          /\ disk' = [disk EXCEPT ![Target].data = WriteString(@, JavaClosing, ok)]
          /\ wrFailed' = (wrFailed \/ ~ok)
    /\ pc' = "return"
    /\ UNCHANGED <<suspended, view, manager, cppname, translation, ioFaults, op, definitions, namespace, codelines, i, art, stdout,
                   calls, orig, prev, runs>>

\* the function returns: the deferred Println and Close calls run
EditReturn ==
    /\ \/ op = JavaOp /\ pc = "return"
       \/ op = TsOp /\ pc = "defs" /\ i > Len(definitions)
    /\ stdout' = Append(stdout, Confirmation(op, Target))
    /\ pc' = "done"
    /\ UNCHANGED <<suspended, view, manager, cppname, translation, ioFaults, op, definitions, namespace, disk, codelines, i, art,
                   calls, orig, prev, runs, wrFailed>>

\* the tool is run once more on the file it has patched
RunAgain ==
    /\ op \in EditOps /\ pc = "done"
    /\ runs < MaxRuns
    /\ runs' = runs + 1
    /\ prev' = disk[Target].data
    /\ pc' = "start"
    /\ codelines' = <<>>
    /\ i' = 0
    /\ stdout' = <<>>
    /\ calls' = <<>>
    /\ UNCHANGED <<suspended, view, manager, cppname, translation, ioFaults, op, definitions, namespace, disk, art, orig, wrFailed>>

-----------------------------------------------------------------------------
\* EmitJavaScript.

Block == EmitBlocks[art]

\* createJsCodeGenerator, before any file is touched
CreateEmitGenerator ==
    /\ op = EmitOp /\ pc = "start"
    /\ \E ok \in IoOutcomes :
          IF ok THEN pc' = "create" /\ art' = 1
          ELSE pc' = "panic" /\ UNCHANGED art
    /\ UNCHANGED <<suspended, view, manager, cppname, translation, ioFaults, op, definitions, namespace, disk, codelines, i, stdout,
                   calls, orig, prev, runs, wrFailed>>

\* variant: the confirmation is printed as soon as the file is created
CreateArtifact_PrintsAtOnce ==
    /\ op = EmitOp /\ pc = "create"
    /\ \E ok \in IoOutcomes :
          IF ok
          THEN /\ disk' = [disk EXCEPT ![Block.path] = Created(@)]
               /\ pc' = "header"
               /\ stdout' = Append(stdout, Confirmation(op, Block.path))
          ELSE /\ pc' = "fatal"
               /\ UNCHANGED <<disk, stdout>>
    /\ UNCHANGED <<suspended, view, manager, cppname, translation, ioFaults, op, definitions, namespace, codelines, i, art,
                   calls, orig, prev, runs, wrFailed>>

\* os.Create of the block's file, and the two defers
CreateArtifact ==
    /\ op = EmitOp /\ pc = "create"
    /\ \E ok \in IoOutcomes :
          IF ok
          THEN /\ disk' = [disk EXCEPT ![Block.path] = Created(@)]
               /\ pc' = "header"
          ELSE /\ pc' = "fatal"
               /\ UNCHANGED disk
    /\ UNCHANGED <<suspended, view, manager, cppname, translation, ioFaults, op, definitions, namespace, codelines, i, art, stdout,
                   calls, orig, prev, runs, wrFailed>>

\* generate(file, <header>, nil)
EmitHeader ==
    /\ op = EmitOp /\ pc = "header"
    /\ \E outcome \in RenderOutcomes :
          LET r == Generate(op, Block.path, disk[Block.path].data,
                            Block.header, "nil", namespace, outcome)
          IN  /\ disk' = [disk EXCEPT ![Block.path].data = r.data]
              /\ calls' = Append(calls, r.call)
              /\ pc' = IF r.fatal THEN "fatal" ELSE "defs"
    /\ i' = 1
    /\ UNCHANGED <<suspended, view, manager, cppname, translation, ioFaults, op, definitions, namespace, codelines, art, stdout,
                   orig, prev, runs, wrFailed>>

\* one iteration of the block's loop: a definition whose kind has no case in
\* the type switch is passed over
EmitDefinition ==
    /\ op = EmitOp /\ pc = "defs"
    /\ i =< Len(definitions)
    /\ LET d == RangeOrder(Len(definitions))[i]
           section == Block.cases[definitions[d]]
       IN  IF section = ""
           THEN UNCHANGED <<disk, calls, pc>>
           ELSE \E outcome \in RenderOutcomes :
                  LET r == Generate(op, Block.path, disk[Block.path].data,
                                    section, DefName(d), namespace, outcome)
                  IN  /\ disk' = [disk EXCEPT ![Block.path].data = r.data]
                      /\ calls' = Append(calls, r.call)
                      /\ pc' = IF r.fatal THEN "fatal" ELSE "defs"
    /\ i' = i + 1
    /\ UNCHANGED <<suspended, view, manager, cppname, translation, ioFaults, op, definitions, namespace, codelines, art, stdout,
                   orig, prev, runs, wrFailed>>

\* generate(file, <footer>, nil), then on to the next block
EmitFooter ==
    /\ op = EmitOp /\ pc = "defs"
    /\ i > Len(definitions)
    /\ \E outcome \in RenderOutcomes :
          LET r == Generate(op, Block.path, disk[Block.path].data,
                            Block.footer, "nil", namespace, outcome)
          IN  /\ disk' = [disk EXCEPT ![Block.path].data = r.data]
              /\ calls' = Append(calls, r.call)
              /\ pc' = IF r.fatal THEN "fatal"
                       ELSE IF art < Len(EmitBlocks) THEN "create" ELSE "return"
              /\ art' = IF ~r.fatal /\ art < Len(EmitBlocks) THEN art + 1 ELSE art
    /\ UNCHANGED <<suspended, view, manager, cppname, translation, ioFaults, op, definitions, namespace, codelines, i, stdout,
                   orig, prev, runs, wrFailed>>

\* the function returns: the deferred calls run, last deferred first
EmitReturn ==
    /\ op = EmitOp /\ pc = "return"
    /\ stdout' = stdout \o [k \in 1..Len(EmitBlocks) |->
                     Confirmation(op, EmitBlocks[Len(EmitBlocks) + 1 - k].path)]
    /\ pc' = "done"
    /\ UNCHANGED <<suspended, view, manager, cppname, translation, ioFaults, op, definitions, namespace, disk, codelines, i, art,
                   calls, orig, prev, runs, wrFailed>>

-----------------------------------------------------------------------------

Next ==
    \/ OpenSourceFails
    \/ ScanSource
    \/ CreateTarget
    \/ WriteCodeline
    \/ WriteMarker
    \/ CreateEditGenerator
    \/ GenerateDefinition
    \/ WriteClosing
    \/ EditReturn
    \/ RunAgain
    \/ CreateEmitGenerator
    \/ CreateArtifact
    \/ EmitHeader
    \/ EmitDefinition
    \/ EmitFooter
    \/ EmitReturn

Spec == Init /\ [][Next]_vars

SpecPatch == InitPatch /\ [][Next]_vars

-----------------------------------------------------------------------------
\* The name functions, as a template calls them while it is executed: one
\* generator of createJsCodeGenerator(namespace), one name, one call.

\* what the names handed to the functions are made of
NamePieces == {"a", "::", ":", "$"}

RECURSIVE PiecesUpTo(_)
PiecesUpTo(n) ==
    IF n = 0 THEN {""}
    ELSE LET shorter == PiecesUpTo(n - 1)
         IN  shorter \cup {s \o p : s \in shorter, p \in NamePieces}

\* the spellings the switch of tstype has a case for
NativeSpellings ==
    {"float", "uint8_t", "uint16_t", "uint32_t", "bool", "LinearColorA", "LinearColor"}

CppNames(n) ==
    PiecesUpTo(n) \cup NativeSpellings
        \cup {"math::" \o s : s \in PiecesUpTo(n - 2) \cup NativeSpellings}
        \cup {"pkg::Bar::A", "a::a::a", "a::a:a", "math::Vector3", "math", "math:",
              "maths::a", "Float", "LinearColorB", "filament::LinearColor"}

\* the namespace argument of createJsCodeGenerator
GeneratorNamespaces == Namespaces \cup {"n::s"}

InitNames ==
    /\ cppname \in CppNames(MaxNamePieces)
    /\ namespace \in GeneratorNamespaces
    /\ translation = NoTranslation
    /\ suspended = {}
    /\ view = NoView
    /\ manager = <<>>
    /\ op = EmitOp
    /\ definitions = <<>>
    /\ disk = [p \in Paths |-> NoFile]
    /\ orig = disk
    /\ ioFaults = FALSE
    /\ pc = "execute"
    /\ codelines = <<>>
    /\ i = 0
    /\ art = 0
    /\ stdout = <<>>
    /\ calls = <<>>
    /\ prev = <<>>
    /\ runs = 1
    /\ wrFailed = FALSE

Translate(fn, out) ==
    /\ pc = "execute"
    /\ translation = NoTranslation
    /\ translation' = [fn |-> fn, out |-> out]
    /\ UNCHANGED <<suspended, view, manager, cppname, ioFaults, op, definitions, namespace, disk, pc, codelines,
                   i, art, stdout, calls, orig, prev, runs, wrFailed>>

\* {{qualifiedtype .}}
QualifiedType == Translate("qualifiedtype", qualifiedtype(cppname))

\* {{qualifiedvalue .}}
QualifiedValue == Translate("qualifiedvalue", qualifiedvalue(namespace, cppname))

\* {{tstype .}}
TsType == Translate("tstype", tstype(namespace, cppname))

\* {{jsprefix}}
JsPrefix == Translate("jsprefix", jsPrefix(namespace))

\* {{cprefix}}
CPrefix == Translate("cprefix", cppPrefix(namespace))

\* {{classprefix}}
ClassPrefix == Translate("classprefix", classPrefix(namespace))

\* the template goes on, to its next call of a function
NextCall ==
    /\ pc = "execute"
    /\ translation # NoTranslation
    /\ translation' = NoTranslation
    /\ UNCHANGED <<suspended, view, manager, cppname, ioFaults, op, definitions,
                   namespace, disk, pc, codelines, i, art, stdout, calls, orig, prev,
                   runs, wrFailed>>

NextNames ==
    \/ QualifiedType
    \/ QualifiedValue
    \/ TsType
    \/ JsPrefix
    \/ CPrefix
    \/ ClassPrefix
    \/ NextCall

SpecNames == InitNames /\ [][NextNames]_vars

-----------------------------------------------------------------------------
\* The three generator functions of one run of the tool as concurrent
\* processes over one disk and one Type Model.  A process is its function,
\* its namespace argument, its locals and the calls of its generate closure;
\* op, namespace, pc, codelines, i, art and calls are those of the process
\* that takes the next step.

Context(o, ns, at, lines, idx, block, history) ==
    [op |-> o, namespace |-> ns, pc |-> at, codelines |-> lines, i |-> idx,
     art |-> block, calls |-> history]

\* the files a hand-seeded patch target may hold
SeededFiles == {SeedFile, FileOf(CodelineMarker)}

InitConcurrent ==
    /\ op = EmitOp
    /\ definitions \in Models(MaxDefs)
    /\ namespace \in Namespaces
    /\ suspended = {Context(TsOp, namespace, "start", <<>>, 0, 0, <<>>),
                    Context(JavaOp, "", "start", <<>>, 0, 0, <<>>)}
    /\ disk \in {[p \in Paths |-> IF p = TsPath THEN ft
                                  ELSE IF p = JavaPath THEN fj ELSE fe] :
                    ft \in SeededFiles, fj \in SeededFiles, fe \in {NoFile, StaleFile}}
    /\ ioFaults = FALSE
    /\ orig = disk
    /\ pc = "start"
    /\ codelines = <<>>
    /\ i = 0
    /\ art = 0
    /\ stdout = <<>>
    /\ calls = <<>>
    /\ prev = <<>>
    /\ runs = 1
    /\ wrFailed = FALSE
    /\ cppname = ""
    /\ translation = NoTranslation
    /\ view = NoView
    /\ manager = <<>>

\* the scheduler lets another process take the next steps
Switch ==
    \E c \in suspended :
        /\ suspended' = (suspended \ {c})
                            \cup {Context(op, namespace, pc, codelines, i, art, calls)}
        /\ op' = c.op
        /\ namespace' = c.namespace
        /\ pc' = c.pc
        /\ codelines' = c.codelines
        /\ i' = c.i
        /\ art' = c.art
        /\ calls' = c.calls
        /\ UNCHANGED <<definitions, disk, stdout, orig, prev, runs, wrFailed,
                       ioFaults, cppname, translation, view, manager>>

NextConcurrent ==
    \/ ScanSource
    \/ CreateTarget
    \/ WriteCodeline
    \/ WriteMarker
    \/ CreateEditGenerator
    \/ GenerateDefinition
    \/ WriteClosing
    \/ EditReturn
    \/ CreateEmitGenerator
    \/ CreateArtifact
    \/ EmitHeader
    \/ EmitDefinition
    \/ EmitFooter
    \/ EmitReturn
    \/ Switch

SpecConcurrent == InitConcurrent /\ [][NextConcurrent]_vars

-----------------------------------------------------------------------------
\* com.google.android.filament.View: the handle of the native view, the
\* fields mName and mScene, and of the last operation its name, whether it
\* threw IllegalStateException and the native methods it invoked, each with
\* the handle it passed.

NativeHandles == 0..MaxNativeHandle

\* variant: the handle is returned unchecked
getNativeObject_Unchecked(v) == [thrown |-> FALSE, value |-> v.mNativeObject]

getNativeObject(v) ==
    IF v.mNativeObject = 0 THEN [thrown |-> TRUE, value |-> 0]
    ELSE [thrown |-> FALSE, value |-> v.mNativeObject]

\* the methods whose body is one call n...(getNativeObject(), ...) of a
\* native method, some around an assignment to a field of their own
SingleCallMethods ==
    [setCamera |-> "nSetCamera", setViewport |-> "nSetViewport",
     setBlendMode |-> "nSetBlendMode", isShadowingEnabled |-> "nIsShadowingEnabled",
     getSampleCount |-> "nGetSampleCount", setColorGrading |-> "nSetColorGrading",
     setBloomOptions |-> "nSetBloomOptions", pick |-> "nPick"]

\* the methods that return a field
FieldGetters == {"getName", "getScene"}

\* the native methods invoked one after the other, each with its own call of
\* getNativeObject(); the first exception ends the operation
RECURSIVE Invoke(_, _)
Invoke(v, natives) ==
    IF natives = <<>> THEN [thrown |-> FALSE, natives |-> <<>>]
    ELSE LET h == getNativeObject(v)
         IN  IF h.thrown THEN [thrown |-> TRUE, natives |-> <<>>]
             ELSE LET rest == Invoke(v, Tail(natives))
                  IN  [thrown |-> rest.thrown,
                       natives |-> <<[method |-> Head(natives), handle |-> h.value]>>
                                       \o rest.natives]

InitView ==
    /\ view \in {[NoView EXCEPT !.mNativeObject = h, !.op = "View"] :
                    h \in NativeHandles}
    /\ pc = "view"
    /\ op = EmitOp
    /\ definitions = <<>>
    /\ namespace = ""
    /\ disk = [p \in Paths |-> NoFile]
    /\ orig = disk
    /\ ioFaults = FALSE
    /\ codelines = <<>>
    /\ i = 0
    /\ art = 0
    /\ stdout = <<>>
    /\ calls = <<>>
    /\ prev = <<>>
    /\ runs = 1
    /\ wrFailed = FALSE
    /\ cppname = ""
    /\ translation = NoTranslation
    /\ suspended = {}
    /\ manager = <<>>

ViewStep(next) ==
    /\ pc = "view"
    /\ view' = next
    /\ UNCHANGED <<suspended, manager, cppname, translation, ioFaults, op, definitions,
                   namespace, disk, pc, codelines, i, art, stdout, calls, orig, prev,
                   runs, wrFailed>>

\* a call of a method on the View: what it invoked and whether it threw
Outcome(v, method, r) == [v EXCEPT !.op = method, !.thrown = r.thrown, !.natives = r.natives]

GetNativeObject ==
    ViewStep(Outcome(view, "getNativeObject",
                     [thrown |-> getNativeObject(view).thrown, natives |-> <<>>]))

ClearNativeObject ==
    ViewStep([Outcome(view, "clearNativeObject", [thrown |-> FALSE, natives |-> <<>>])
                 EXCEPT !.mNativeObject = 0, !.cleared = TRUE])

SetName ==
    \E name \in {"a", "b"} :
        ViewStep(Outcome([view EXCEPT !.mName = name], "setName",
                         Invoke(view, <<"nSetName">>)))

SetScene ==
    \E scene \in NativeHandles :
        ViewStep(Outcome([view EXCEPT !.mScene = scene], "setScene",
                         Invoke(view, <<"nSetScene">>)))

GetField ==
    \E method \in FieldGetters :
        ViewStep(Outcome(view, method, [thrown |-> FALSE, natives |-> <<>>]))

SetAmbientOcclusionOptions ==
    ViewStep(Outcome(view, "setAmbientOcclusionOptions",
                     Invoke(view, <<"nSetAmbientOcclusionOptions", "nSetSSCTOptions">>)))

CallNative ==
    \E method \in DOMAIN SingleCallMethods :
        ViewStep(Outcome(view, method, Invoke(view, <<SingleCallMethods[method]>>)))

NextView ==
    \/ GetNativeObject
    \/ ClearNativeObject
    \/ SetName
    \/ SetScene
    \/ GetField
    \/ SetAmbientOcclusionOptions
    \/ CallNative

SpecView == InitView /\ [][NextView]_vars

-----------------------------------------------------------------------------
\* gltfio FNodeManager::terminate.  mManager is a component manager of the
\* utils library: its instances are numbered from 1, manager[ci] is the
\* entity of instance ci, and an entity has at most one component.

Entities == 1..MaxComponents

\* manager.empty()
empty(m) == Len(m) = 0

\* manager.end(): one past the last instance
end(m) == Len(m) + 1

\* manager.getEntity(ci); the null entity for an instance that does not exist
getEntity(m, ci) == IF ci \in 1..Len(m) THEN m[ci] ELSE 0

\* manager.removeComponent(e): the last instance takes the place of the
\* instance of e, and the array shrinks by one; nothing for an entity
\* without component
removeComponent(m, e) ==
    IF \E k \in 1..Len(m) : m[k] = e
    THEN LET k == CHOOSE k \in 1..Len(m) : m[k] = e
         IN  [j \in 1..(Len(m) - 1) |-> IF j = k THEN m[Len(m)] ELSE m[j]]
    ELSE m

\* the managers with every component that create() left registered
Managers ==
    {m \in SeqsUpTo(Entities, MaxComponents) :
        \A j, k \in 1..Len(m) : j # k => m[j] # m[k]}

InitNodes ==
    /\ manager \in Managers
    /\ pc = "terminate"
    /\ i = 0
    /\ op = EmitOp
    /\ definitions = <<>>
    /\ namespace = ""
    /\ disk = [p \in Paths |-> NoFile]
    /\ orig = disk
    /\ ioFaults = FALSE
    /\ codelines = <<>>
    /\ art = 0
    /\ stdout = <<>>
    /\ calls = <<>>
    /\ prev = <<>>
    /\ runs = 1
    /\ wrFailed = FALSE
    /\ cppname = ""
    /\ translation = NoTranslation
    /\ suspended = {}
    /\ view = NoView

\* if (!manager.empty()) { ... }
TerminateEnter ==
    /\ pc = "terminate"
    /\ pc' = IF ~empty(manager) THEN "while" ELSE "returned"
    /\ UNCHANGED <<suspended, view, manager, cppname, translation, ioFaults, op,
                   definitions, namespace, disk, codelines, i, art, stdout, calls, orig,
                   prev, runs, wrFailed>>

\* variant: the instance looked up is the one past the last
TerminateIterate_PastEnd ==
    /\ pc = "while" /\ ~empty(manager)
    /\ LET ci == end(manager)
       IN  manager' = removeComponent(manager, getEntity(manager, ci))
    /\ i' = IF manager' # manager THEN i + 1 ELSE i
    /\ UNCHANGED <<suspended, view, cppname, translation, ioFaults, op, definitions,
                   namespace, disk, pc, codelines, art, stdout, calls, orig, prev, runs,
                   wrFailed>>

\* one iteration of the while loop; i counts the components removed
TerminateIterate ==
    /\ pc = "while" /\ ~empty(manager)
    /\ LET ci == end(manager) - 1
       IN  manager' = removeComponent(manager, getEntity(manager, ci))
    /\ i' = IF manager' # manager THEN i + 1 ELSE i
    /\ UNCHANGED <<suspended, view, cppname, translation, ioFaults, op, definitions,
                   namespace, disk, pc, codelines, art, stdout, calls, orig, prev, runs,
                   wrFailed>>

\* the loop condition is false: the function returns
TerminateReturn ==
    /\ pc = "while" /\ empty(manager)
    /\ pc' = "returned"
    /\ UNCHANGED <<suspended, view, manager, cppname, translation, ioFaults, op,
                   definitions, namespace, disk, codelines, i, art, stdout, calls, orig,
                   prev, runs, wrFailed>>

NextNodes ==
    \/ TerminateEnter
    \/ TerminateIterate
    \/ TerminateReturn

\* the thread that called terminate() keeps running
SpecNodes == InitNodes /\ [][NextNodes]_vars /\ WF_vars(NextNodes)

-----------------------------------------------------------------------------
\* Vocabulary of the properties, stated on the raw bytes of a file and on the
\* Type Model, independently of how the functions compute.

\* some line of the file contains the marker (the marker holds no newline)
HasMarkerLine(data) == Contains(data, CodelineMarker)

\* offset of the first occurrence of the marker
FirstMarkerAt(data) ==
    CHOOSE k \in 1..Len(data) :
        /\ SubSeq(data, k, k + Len(CodelineMarker) - 1) = CodelineMarker
        /\ \A j \in 1..(k - 1) :
              SubSeq(data, j, j + Len(CodelineMarker) - 1) # CodelineMarker

\* the bytes of the file that precede its first marker line
BytesBeforeMarkerLine(data) ==
    LET m == FirstMarkerAt(data)
        newlines == {j \in 1..(m - 1) : data[j] = LF}
        lineStart == IF newlines = {} THEN 1
                     ELSE 1 + CHOOSE j \in newlines : \A h \in newlines : h =< j
    IN  SubSeq(data, 1, lineStart - 1)

\* the bytes of the file from its first marker line on
BytesFromMarkerLine(data) ==
    SubSeq(data, Len(BytesBeforeMarkerLine(data)) + 1, Len(data))

\* a patcher ran to its end and every write it made went through
PatchSucceeded == op \in EditOps /\ pc = "done" /\ ~wrFailed

Confirmed(path) == \E k \in 1..Len(stdout) : stdout[k] = Confirmation(op, path)

\* positions of the definitions of a kind, in model order
RECURSIVE OfKind(_, _, _)
OfKind(defs, kind, from) ==
    IF from > Len(defs) THEN <<>>
    ELSE (IF defs[from] = kind THEN <<from>> ELSE <<>>) \o OfKind(defs, kind, from + 1)

-----------------------------------------------------------------------------
\* C1: File Patcher preservation. After a patcher has succeeded, once or
\* several times in a row, the file starts with exactly the bytes of the
\* original file that precede its first marker line.
C1_PrefixBytesPreserved ==
    (PatchSucceeded /\ orig[Target].exists /\ HasMarkerLine(orig[Target].data))
        => IsPrefixOf(BytesBeforeMarkerLine(orig[Target].data), disk[Target].data)

\* C2: File Patcher idempotence. Patching a file and patching the result
\* again with the same Type Model leaves the same bytes both times.
C2_Idempotent ==
    (PatchSucceeded /\ runs >= 2) => disk[Target].data = prev

\* the file a run starts from
RunInput == IF runs = 1 THEN orig[Target].data ELSE prev

\* C3: Missing-marker fatality. When the target cannot be opened or none of
\* its lines contains the marker, the patcher stops before creating,
\* truncating or writing the file: the disk stays as it was, nothing is
\* confirmed and no marker is inserted.
C3_MissingMarkerFatal ==
    (op \in EditOps /\ (~disk[Target].exists \/ ~HasMarkerLine(RunInput)))
        => /\ pc \in {"start", "fatal"}
           /\ disk[Target].data = RunInput
           /\ runs = 1 => disk = orig
           /\ stdout = <<>>

\* a patcher has stopped on a non-empty file without marker
C3_Witness ==
    /\ op \in EditOps /\ pc = "fatal"
    /\ disk[Target].exists /\ disk[Target].data # <<>>
    /\ ~HasMarkerLine(disk[Target].data)

RECURSIVE JoinLines(_)
JoinLines(lines) ==
    IF lines = <<>> THEN <<>>
    ELSE Head(lines) \o <<LF>> \o JoinLines(Tail(lines))

\* the section of every definition, in model order, as a patcher renders it
PatchSections(o, defs, ns) ==
    [d \in 1..Len(defs) |->
        Rendered(o, TemplateFor(o, EditCases(o)[defs[d]]), DefName(d), ns)]

\* A patched file as a function of the preserved prefix and the Type Model
\* alone: the prefix lines, each ended by a newline, the marker line, the
\* sections and the closing line.
PatchOf(o, prefix, defs, ns) ==
    JoinLines(ScanLines(prefix)) \o MarkerLine(o) \o PatchSections(o, defs, ns)
        \o (IF o = JavaOp THEN JavaClosing ELSE <<>>)

\* C4: the patched file depends only on the preserved prefix and the Type
\* Model. The file a successful patcher leaves is PatchOf applied to the bytes
\* before the first marker line, the definitions and the namespace: originals
\* that agree before their first marker line give the same file, whatever
\* their marker line looks like and whatever follows it.
C4_PrefixAndModelDetermine ==
    PatchSucceeded
        => disk[Target].data
               = PatchOf(op, BytesBeforeMarkerLine(RunInput), definitions, namespace)

\* a first patch, with a definition, of a file with a non-empty prefix whose
\* marker line is not the marker line the patcher writes
C4_Witness ==
    /\ PatchSucceeded /\ runs = 1
    /\ definitions # <<>>
    /\ BytesBeforeMarkerLine(RunInput) # <<>>
    /\ Len(BytesFromMarkerLine(RunInput)) > Len(CodelineMarker)

\* the section the Type Model's kind asks for in each artifact
SectionOfKind ==
    [p \in Paths |->
        CASE p = JsBindingsPath -> [Struct |-> "JsBindingsStruct", Enum |-> ""]
          [] p = JsEnumsPath -> [Struct |-> "", Enum |-> "JsEnum"]
          [] p = JsExtensionsPath -> [Struct |-> "JsExtension", Enum |-> ""]
          [] p = TsPath -> [Struct |-> "TsStruct", Enum |-> "TsEnum"]
          [] OTHER -> [Struct |-> "Struct", Enum |-> "Enum"]]

\* position in the Type Model of the definition a call renders (0 for nil)
DefIndex(call) ==
    IF \E d \in 1..Len(definitions) : DefName(d) = call.def
    THEN CHOOSE d \in 1..Len(definitions) : DefName(d) = call.def
    ELSE 0

\* C5: Section dispatch by variant. Every definition rendered into an
\* artifact is rendered with the section mapped to its own variant for that
\* artifact, and the section executed is the section requested.
C5_SectionDispatch ==
    \A k \in 1..Len(calls) :
        DefIndex(calls[k]) # 0
            => /\ calls[k].section
                    = SectionOfKind[calls[k].path][definitions[DefIndex(calls[k])]]
               /\ calls[k].executed = calls[k].section

\* the template names a rendered token can carry
Templates ==
    {"CppStructReader"} \cup
    UNION {{SectionOfKind[p].Struct, SectionOfKind[p].Enum} : p \in Paths}

\* the tokens that are a rendered section of the d-th definition
SectionsOf(d) == {Rendered(op, t, DefName(d), namespace) : t \in Templates}

\* where the rendered sections of the d-th definition stand in a file
PositionsOf(data, d) ==
    LET tokens == SectionsOf(d) IN {k \in 1..Len(data) : data[k] \in tokens}

\* number of rendered sections of the d-th definition in a file
CountSections(data, d) == Cardinality(PositionsOf(data, d))

\* the kind each file of EmitJavaScript is made from
KindOfFile ==
    [p \in {JsBindingsPath, JsEnumsPath, JsExtensionsPath} |->
        IF p = JsEnumsPath THEN "Enum" ELSE "Struct"]

EmitFinished == op = EmitOp /\ pc \in {"return", "done"}

\* C6: Kind filtering. When EmitJavaScript has written its files, the struct
\* binding file and the extension file hold exactly one rendered section per
\* Struct definition and none for an Enum definition, and the enum binding
\* file exactly one per Enum definition and none for a Struct definition;
\* definitions of the other kind are passed over without error.
C6_KindFiltering ==
    EmitFinished
        => \A p \in DOMAIN KindOfFile : \A d \in 1..Len(definitions) :
              /\ CountSections(disk[p].data, d)
                    = (IF definitions[d] = KindOfFile[p] THEN 1 ELSE 0)
              /\ Cardinality({k \in 1..Len(calls) :
                                 calls[k].path = p /\ calls[k].def = DefName(d)})
                    = (IF definitions[d] = KindOfFile[p] THEN 1 ELSE 0)

\* EmitJavaScript has finished on a model holding a Struct and an Enum
C6_Witness ==
    /\ EmitFinished
    /\ \E d, e \in 1..Len(definitions) :
          definitions[d] = "Struct" /\ definitions[e] = "Enum"

\* C7: Emission order. In every file, at every moment, the rendered sections
\* stand in the order their definitions have in the Type Model.
C7_EmissionOrder ==
    \A p \in Paths :
        \A d1, d2 \in 1..Len(definitions) :
            d1 < d2
                => \A k1 \in PositionsOf(disk[p].data, d1) :
                       \A k2 \in PositionsOf(disk[p].data, d2) : k1 < k2

\* some file holds the sections of two definitions
C7_Witness ==
    \E p \in Paths :
        \E d1, d2 \in 1..Len(definitions) :
            /\ d1 < d2
            /\ CountSections(disk[p].data, d1) > 0
            /\ CountSections(disk[p].data, d2) > 0

\* header and footer section of each file of EmitJavaScript
HeaderOf ==
    [p \in DOMAIN KindOfFile |->
        CASE p = JsBindingsPath -> "JsBindingsHeader"
          [] p = JsEnumsPath -> "JsEnumsHeader"
          [] OTHER -> "JsExtensionsHeader"]

FooterOf ==
    [p \in DOMAIN KindOfFile |->
        CASE p = JsBindingsPath -> "JsBindingsFooter"
          [] p = JsEnumsPath -> "JsEnumsFooter"
          [] OTHER -> "JsExtensionsFooter"]

\* the order in which EmitJavaScript writes its files
EmitOrder == <<JsBindingsPath, JsEnumsPath, JsExtensionsPath>>

\* the complete contents of a file of EmitJavaScript: its header, the section
\* of every definition of its kind in model order, its footer
CompleteFile(p) ==
    LET mine == OfKind(definitions, KindOfFile[p], 1) IN
    <<Rendered(EmitOp, HeaderOf[p], "nil", namespace)>>
        \o [k \in 1..Len(mine) |->
               Rendered(EmitOp, SectionOfKind[p][KindOfFile[p]], DefName(mine[k]),
                        namespace)]
        \o <<Rendered(EmitOp, FooterOf[p], "nil", namespace)>>

\* C8: Append-only sequencing. Each file of EmitJavaScript is untouched until
\* its turn, then created empty, then holds its own header first and exactly
\* once, then the definition sections, and its own footer exactly once and
\* last; a finished file is header, sections, footer and nothing else.
C8_AppendOnlySequence ==
    (op = EmitOp /\ pc \notin {"fatal", "panic"})
        => \A b \in 1..Len(EmitOrder) :
              LET p == EmitOrder[b]
                  data == disk[p].data
              IN  CASE b < art \/ pc \in {"return", "done"} ->
                            data = CompleteFile(p)
                    [] b = art /\ pc = "header" -> disk[p].exists /\ data = <<>>
                    [] b = art /\ pc = "defs" ->
                            /\ IsPrefixOf(data, CompleteFile(p))
                            /\ 1 =< Len(data) /\ Len(data) < Len(CompleteFile(p))
                    [] OTHER -> disk[p] = orig[p]

\* EmitJavaScript has finished on an empty Type Model, over stale files
C8_Witness ==
    /\ op = EmitOp /\ pc = "done" /\ definitions = <<>>
    /\ \A b \in 1..Len(EmitOrder) : orig[EmitOrder[b]].exists

\* C9: Rendering failure is fatal. A failed rendering is the last one of the
\* run: the run has ended with exit status 1, nothing is confirmed, and
\* the files of the later blocks are as they were before the run.
C9_RenderFailureFatal ==
    \A k \in 1..Len(calls) :
        ~calls[k].ok
            => /\ k = Len(calls)
               /\ pc = "fatal"
               /\ stdout = <<>>
               /\ op = EmitOp
                     => \A b \in (art + 1)..Len(EmitOrder) :
                            disk[EmitOrder[b]] = orig[EmitOrder[b]]

\* a rendering failed in the first file of EmitJavaScript while definitions
\* were still to be rendered
C9_Witness ==
    /\ op = EmitOp /\ pc = "fatal" /\ art = 1
    /\ calls # <<>> /\ ~calls[Len(calls)].ok
    /\ i =< Len(definitions)

\* C10: I/O write failures are fatal. A run in which writing a prefix line,
\* the marker line or the closing line failed never confirms the file as
\* edited.
C10_WriteFailureFatal ==
    (op \in EditOps /\ runs = 1 /\ wrFailed) => ~Confirmed(Target)

-----------------------------------------------------------------------------
\* a run that ended without returning: log.Fatal or a panic
RunFailed == pc \in {"fatal", "panic"}

\* C11: No confirmation on failure. A run that ended in a fatal condition
\* (file not opened or not created, marker missing, template not loaded,
\* rendering failed) has printed no "Generated" / "Edited" line for any file.
C11_NoConfirmationOnFailure ==
    RunFailed
        => \A p \in Paths, k \in 1..Len(stdout) :
              stdout[k] \notin {"Generated " \o p, "Edited " \o p}

\* C12: Confirmation on success. A run that has returned has printed exactly
\* one "Generated" line for each of the three files of EmitJavaScript, or
\* exactly one "Edited" line for the patched file; and in a run that did not
\* fail a line is on the output only once the run is over and the whole
\* content of every confirmed file is written.
C12_ConfirmationOnSuccess ==
    /\ (op = EmitOp /\ pc = "done")
          => /\ Len(stdout) = Len(EmitOrder)
             /\ \A b \in 1..Len(EmitOrder) :
                   Cardinality({k \in 1..Len(stdout) :
                                   stdout[k] = "Generated " \o EmitOrder[b]}) = 1
    /\ (op \in EditOps /\ pc = "done") => stdout = <<"Edited " \o Target>>
    /\ (stdout # <<>> /\ ~RunFailed)
          => /\ pc = "done"
             /\ op = EmitOp
                   => \A b \in 1..Len(EmitOrder) :
                         disk[EmitOrder[b]].data = CompleteFile(EmitOrder[b])
             /\ PatchSucceeded
                   => disk[Target].data =
                          PatchOf(op, BytesBeforeMarkerLine(RunInput), definitions,
                                  namespace)

\* EmitJavaScript has returned after writing a struct and an enum
C12_Witness ==
    /\ op = EmitOp /\ pc = "done"
    /\ \E d1, d2 \in 1..Len(definitions) :
          definitions[d1] = "Struct" /\ definitions[d2] = "Enum"

-----------------------------------------------------------------------------
\* Vocabulary of the properties of the name functions.

\* the segments of a qualified name: the text between its delimiters, taken
\* left to right
RECURSIVE Segments(_)
Segments(name) ==
    LET at == {k \in 1..(Len(name) - 1) : SubSeq(name, k, k + 1) = "::"}
    IN  IF at = {} THEN <<name>>
        ELSE LET k == CHOOSE k \in at : \A j \in at : k =< j
             IN  <<SubSeq(name, 1, k - 1)>> \o Segments(SubSeq(name, k + 2, Len(name)))

RECURSIVE Join(_, _)
Join(segs, sep) ==
    IF segs = <<>> THEN ""
    ELSE IF Len(segs) = 1 THEN segs[1]
    ELSE segs[1] \o sep \o Join(Tail(segs), sep)

\* number of delimiters of a name
Delimiters(name) == Len(Segments(name)) - 1

PositionsOfChar(s, c) == {k \in 1..Len(s) : SubSeq(s, k, k) = c}

Called(fn) == translation.fn = fn

\* the result is the root, the scripting-scope prefix and the name with its
\* first k - 1 delimiters flattened and the last one a member access; the
\* delimiters of a name without "." and "$" of its own leave exactly one "."
\* and k - 1 "$", every "$" before the "."
ValueNameAsSpecified ==
    LET segs == Segments(cppname)
        k == Delimiters(cppname)
        root == "Filament." \o jsPrefix(namespace)
        scoped == SubSeq(translation.out, Len(root) + 1, Len(translation.out))
        dots == PositionsOfChar(scoped, ".")
        dollars == PositionsOfChar(scoped, "$")
    IN  /\ translation.out = root \o Join(SubSeq(segs, 1, k), "$") \o "." \o segs[k + 1]
        /\ (PositionsOfChar(cppname, ".") = {} /\ PositionsOfChar(cppname, "$") = {})
              => /\ Cardinality(dots) = 1
                 /\ Cardinality(dollars) = k - 1
                 /\ \A d \in dots, f \in dollars : f < d

\* C13 as stated: qualifiedValueName of a name with k >= 1 delimiters, for
\* every namespace prefix, is the root, the scripting-scope prefix and the
\* name with its first k - 1 delimiters replaced by "$" and the last by ".".
C13_QualifiedValueName ==
    (Called("qualifiedvalue") /\ Delimiters(cppname) >= 1) => ValueNameAsSpecified

\* C13: qualifiedValueName of a name with k >= 1 delimiters, for every
\* namespace prefix that holds no delimiter itself, is the root, the
\* scripting-scope prefix and the name with its first k - 1 delimiters
\* replaced by "$" and the last by ".".
C13_QualifiedValueNamePlainNamespace ==
    (Called("qualifiedvalue") /\ Delimiters(cppname) >= 1 /\ Delimiters(namespace) = 0)
        => ValueNameAsSpecified

\* the value of a nested enum was translated under a namespace
C13_Witness ==
    /\ Called("qualifiedvalue") /\ cppname = "pkg::Bar::A" /\ namespace = "ns"
    /\ translation.out = "Filament.ns$pkg$Bar.A"

\* C14: qualifiedValueName of a name without delimiter is the name unchanged:
\* no root, no prefix, no replacement.
C14_UnqualifiedValueName ==
    (Called("qualifiedvalue") /\ Delimiters(cppname) = 0) => translation.out = cppname

\* an unqualified name was translated under a namespace
C14_Witness ==
    /\ Called("qualifiedvalue") /\ cppname = "Float" /\ namespace = "ns"

\* C15: qualifiedTypeName(n) is n with every delimiter replaced by "$", and
\* no delimiter is left in it.
C15_QualifiedTypeName ==
    Called("qualifiedtype")
        => /\ translation.out = Join(Segments(cppname), "$")
           /\ Delimiters(translation.out) = 0

\* a name with two delimiters was flattened
C15_Witness ==
    /\ Called("qualifiedtype") /\ cppname = "pkg::Bar::A"
    /\ translation.out = "pkg$Bar$A"

\* the names a Type Model may hold next to the translated one
OtherNames == CppNames(MaxNamePieces) \ {cppname}

\* C16 as stated: qualifiedTypeName is collision-free: no other name has the
\* translation of this one.
C16_CollisionFree ==
    Called("qualifiedtype")
        => \A other \in OtherNames : qualifiedtype(other) # translation.out

\* C16: qualifiedTypeName is collision-free on names that hold no "$" of
\* their own: no other such name has the translation of this one.
C16_CollisionFreeWithoutFlatChar ==
    (Called("qualifiedtype") /\ PositionsOfChar(cppname, "$") = {})
        => \A other \in OtherNames :
              PositionsOfChar(other, "$") = {}
                  => qualifiedtype(other) # translation.out

\* a qualified name was flattened while the model holds a name that differs
\* from it in one segment only
C16_Witness ==
    /\ Called("qualifiedtype") /\ cppname = "a::a::a"
    /\ "a::a:a" \in OtherNames

\* the primitive table, as specified
PrimitiveTable ==
    [t \in NativeSpellings |->
        CASE t = "bool" -> "boolean"
          [] t = "LinearColorA" -> "float4"
          [] t = "LinearColor" -> "float3"
          [] OTHER -> "number"]

\* the result starts with the scripting-scope prefix of a namespace
CarriesPrefix(out) == namespace # "" /\ HasPrefix(out, namespace \o "$")

\* C17: scalarTypeName maps the spellings of the primitive table, under every
\* namespace: float, uint8_t, uint16_t and uint32_t to number, bool to
\* boolean, LinearColorA to float4, LinearColor to float3; the result never
\* carries the scripting-scope prefix.
C17_PrimitiveTable ==
    (Called("tstype") /\ cppname \in NativeSpellings)
        => /\ translation.out = PrimitiveTable[cppname]
           /\ ~CarriesPrefix(translation.out)

\* the longer of the two colour names was translated under a namespace
C17_Witness ==
    /\ Called("tstype") /\ cppname = "LinearColorA" /\ namespace = "ns"

\* C18: scalarTypeName of a name that starts with "math::" is the name
\* without this leading "math::" and otherwise unchanged, without prefix,
\* whatever the rest of the name is.
C18_MathPrecedence ==
    (Called("tstype") /\ HasPrefix(cppname, "math::"))
        => /\ "math::" \o translation.out = cppname
           /\ ~CarriesPrefix(translation.out)

\* a math name whose rest is a spelling of the table was translated
C18_Witness ==
    /\ Called("tstype") /\ cppname = "math::float" /\ namespace = "ns"
    /\ translation.out = "float"

\* C19: scalarTypeName returns a value for every name; for a name that
\* neither starts with "math::" nor is a spelling of the table the value is
\* the scripting-scope prefix followed by the name with every delimiter
\* replaced by "$".
C19_TotalWithFallback ==
    /\ translation = NoTranslation => tstype(namespace, cppname) \in STRING
    /\ Called("tstype") => translation.out \in STRING
    /\ (Called("tstype") /\ ~HasPrefix(cppname, "math::")
                         /\ cppname \notin NativeSpellings)
          => translation.out =
                (IF namespace = "" THEN "" ELSE namespace \o "$")
                    \o Join(Segments(cppname), "$")

\* a qualified name that ends in a spelling of the table was translated
C19_Witness ==
    /\ Called("tstype") /\ cppname = "filament::LinearColor" /\ namespace = "ns"
    /\ translation.out = "ns$filament$LinearColor"

-----------------------------------------------------------------------------
\* the end-to-end scenario: a patcher has returned from its first run on the
\* seed file with a model of one struct followed by one enum
ScenarioDone ==
    /\ PatchSucceeded /\ runs = 1
    /\ orig[Target] = SeedFile
    /\ definitions = <<"Struct", "Enum">>

\* what the generator of the artifact writes for the struct and for the enum
ScenarioSections ==
    IF op = JavaOp
    THEN <<"CppStructReader(" \o DefName(1) \o ")",
           "CppStructReader(" \o DefName(2) \o ")">>
    ELSE <<"TsStruct[" \o namespace \o "](" \o DefName(1) \o ")",
           "TsEnum[" \o namespace \o "](" \o DefName(2) \o ")">>

\* the closing boilerplate of the artifact
ScenarioClosing == IF op = JavaOp THEN <<"}", LF>> ELSE <<>>

-----------------------------------------------------------------------------
\* every process of the run has returned
AllReturned == pc = "done" /\ \A c \in suspended : c.pc = "done"

\* the files a generator function writes
OwnPaths(o) ==
    IF o = EmitOp THEN {JsBindingsPath, JsEnumsPath, JsExtensionsPath}
    ELSE IF o = JavaOp THEN {JavaPath} ELSE {TsPath}

\* the namespace argument of every process
ProcessNamespaces ==
    {<<op, namespace>>} \cup {<<c.op, c.namespace>> : c \in suspended}

\* what a sequential run leaves in each file (EmitJavaScript is the process
\* looked at, so that namespace is the one of the JavaScript generators)
SequentialResult ==
    [p \in Paths |->
        IF p \in OwnPaths(EmitOp) THEN CompleteFile(p)
        ELSE IF p = TsPath
        THEN PatchOf(TsOp, BytesBeforeMarkerLine(orig[p].data), definitions, namespace)
        ELSE PatchOf(JavaOp, BytesBeforeMarkerLine(orig[p].data), definitions, "")]

\* C21: Artifacts do not interfere. When the generator functions run as
\* concurrent processes, in every interleaving each file ends with the
\* contents a sequential run gives it; no two processes write the same path,
\* a step changes only files of the process that takes it, and no step
\* changes the Type Model or the namespace of a process.
C21_NoInterference ==
    /\ [](\A o1, o2 \in Ops : o1 # o2 => OwnPaths(o1) \cap OwnPaths(o2) = {})
    /\ []((AllReturned /\ op = EmitOp)
             => \A p \in Paths : disk[p].data = SequentialResult[p])
    /\ [][/\ definitions' = definitions
          /\ ProcessNamespaces' = ProcessNamespaces
          /\ \A p \in Paths : disk'[p] # disk[p] => p \in OwnPaths(op)]_vars

\* all three processes have returned, EmitJavaScript, which started first,
\* between the two patchers, over a model of a struct and an enum
C21_Witness ==
    /\ AllReturned /\ op = EmitOp
    /\ definitions = <<"Struct", "Enum">>
    /\ Len(stdout) = 5
    /\ stdout[1] = "Edited " \o JavaPath
    /\ stdout[5] = "Edited " \o TsPath

-----------------------------------------------------------------------------
\* the lines above the first marker line of the file a patcher was run on
PrefixLines == ScanLines(BytesBeforeMarkerLine(RunInput))

\* the marker line of each artifact, as specified
OwnMarkerLine ==
    (IF op = JavaOp THEN <<"    // ">> ELSE <<"// ">>) \o CodelineMarker \o <<LF>>

\* the closing boilerplate of each artifact, as specified
OwnClosing == IF op = JavaOp THEN <<"}", LF>> ELSE <<>>

\* C22: Patcher step order. While no step of a patcher has failed, the file
\* is as it was found until scanning has found the marker; once created it
\* holds the preserved prefix lines written so far, then all of them and
\* exactly one marker line in the comment syntax of the artifact, then the
\* sections rendered so far, and when the patcher returns the closing
\* boilerplate once, as its last bytes.
C22_PatcherStepOrder ==
    (op \in EditOps /\ ~RunFailed /\ ~wrFailed)
        => LET data == disk[Target].data
               sections == PatchSections(op, definitions, namespace)
               head == JoinLines(PrefixLines) \o OwnMarkerLine
           IN  CASE pc \in {"start", "create"} ->
                        /\ disk[Target].exists => data = RunInput
                        /\ pc = "create" => HasMarkerLine(RunInput)
                 [] pc = "prefix" ->
                        /\ HasMarkerLine(RunInput)
                        /\ i - 1 =< Len(PrefixLines)
                        /\ data = JoinLines(SubSeq(PrefixLines, 1, i - 1))
                 [] pc = "generator" -> data = head
                 [] pc = "defs" -> data = head \o SubSeq(sections, 1, i - 1)
                 [] OTHER -> data = head \o sections \o OwnClosing

\* EditJava has returned from patching the seed file with one enum
C22_Witness ==
    /\ PatchSucceeded /\ op = JavaOp /\ runs = 1
    /\ orig[Target] = SeedFile
    /\ definitions = <<"Enum">>

-----------------------------------------------------------------------------
\* the scanning loop of a patcher is over, on a file that could be opened
Scanned ==
    /\ op \in EditOps /\ pc # "start"
    /\ runs = 1 => orig[Target].exists

\* C23: MarkerMissing is reported exactly when no marker exists. With the
\* operations after the scan succeeding, a patcher ends in the fatal state
\* if and only if no line of the file contains the marker; when some line
\* contains it, whatever comes before, the scan stops at the first such line
\* with the lines above it as the preserved prefix.
C23_MarkerMissingIffNoMarker ==
    Scanned
        => /\ pc = "fatal" <=> ~HasMarkerLine(RunInput)
           /\ pc # "fatal" => codelines = PrefixLines

-----------------------------------------------------------------------------
\* the lines of a file: the bytes between its newlines
RECURSIVE RawLines(_)
RawLines(data) ==
    IF \E k \in 1..Len(data) : data[k] = LF
    THEN LET k == CHOOSE k \in 1..Len(data) :
                     data[k] = LF /\ \A j \in 1..(k - 1) : data[j] # LF
         IN  <<SubSeq(data, 1, k - 1)>> \o RawLines(SubSeq(data, k + 1, Len(data)))
    ELSE <<data>>

\* the number of lines of a file that contain the marker
MarkerLines(data) ==
    Cardinality({k \in 1..Len(RawLines(data)) :
                    Contains(RawLines(data)[k], CodelineMarker)})

\* C24: Single marker after patching. The rendered sections holding no
\* marker, a successfully patched file has exactly one line that contains the
\* marker, however many marker lines the file had before.
C24_SingleMarkerLine ==
    PatchSucceeded => MarkerLines(disk[Target].data) = 1

\* a file with two marker lines has been patched
C24_Witness ==
    /\ PatchSucceeded /\ runs = 1
    /\ MarkerLines(orig[Target].data) = 2
    /\ definitions # <<>>

-----------------------------------------------------------------------------
\* C25: NamingContext derivation. For a non-empty namespace N the
\* scripting-scope prefix is N + "$", the class prefix N + ".prototype." and
\* the native prefix N + "::"; for the empty namespace all three are empty;
\* and no call of a generator changes the namespace its prefixes derive from,
\* so every later call returns the same prefixes.
C25_NamingContext ==
    /\ [](/\ Called("jsprefix")
                => translation.out = (IF namespace = "" THEN "" ELSE namespace \o "$")
          /\ Called("classprefix")
                => translation.out =
                       (IF namespace = "" THEN "" ELSE namespace \o ".prototype.")
          /\ Called("cprefix")
                => translation.out = (IF namespace = "" THEN "" ELSE namespace \o "::"))
    /\ [][namespace' = namespace]_vars

\* the class prefix of a namespace was asked for
C25_Witness ==
    /\ Called("classprefix") /\ namespace = "ns"
    /\ translation.out = "ns.prototype."

-----------------------------------------------------------------------------
\* a name function that is to return a flattened name has been called
Flattened ==
    \/ Called("qualifiedtype")
    \/ Called("qualifiedvalue") /\ Delimiters(cppname) >= 1
    \/ Called("tstype")

\* C27 as stated: Translator output is delimiter-free. For every namespace
\* prefix and every name, the results of qualifiedTypeName, of
\* qualifiedValueName (k >= 1) and of scalarTypeName contain no "::".
C27_DelimiterFree == Flattened => Delimiters(translation.out) = 0

\* C27: Translator output is delimiter-free where the inputs allow it: the
\* result of qualifiedTypeName always; the result of qualifiedValueName
\* (k >= 1) when the namespace prefix holds no "::"; the result of
\* scalarTypeName when the name starts with "math::" and holds no further
\* "::", or does not start with "math::" and the namespace prefix holds no
\* "::".
C27_DelimiterFreeOnPlainInputs ==
    /\ Called("qualifiedtype") => Delimiters(translation.out) = 0
    /\ (Called("qualifiedvalue") /\ Delimiters(cppname) >= 1
                                 /\ Delimiters(namespace) = 0)
          => Delimiters(translation.out) = 0
    /\ (Called("tstype")
           /\ IF HasPrefix(cppname, "math::")
              THEN Delimiters(SubSeq(cppname, 7, Len(cppname))) = 0
              ELSE Delimiters(namespace) = 0)
          => Delimiters(translation.out) = 0

\* the value of a doubly nested name was translated under a namespace
C27_Witness ==
    /\ Called("qualifiedvalue") /\ cppname = "a::a::a" /\ namespace = "ns"
    /\ translation.out = "Filament.ns$a$a.a"

-----------------------------------------------------------------------------
\* a rendering failure has ended the first run of a patcher whose writes had
\* all gone through
RenderingAborted ==
    /\ op \in EditOps /\ pc = "fatal" /\ runs = 1 /\ ~wrFailed
    /\ calls # <<>> /\ ~calls[Len(calls)].ok

\* C26: Re-runnable after a rendering failure. The file a patcher leaves when
\* a rendering failure ends it begins with the complete preserved prefix (the
\* bytes above the marker line of the file it was run on) and a marker line;
\* a later run on that file finds the marker and preserves this same prefix.
C26_RerunnableAfterFailure ==
    RenderingAborted
        => LET left == disk[Target].data
               prefix == BytesBeforeMarkerLine(RunInput)
           IN  /\ IsPrefixOf(prefix \o OwnMarkerLine, left)
               /\ FoundMarker(left)
               /\ JoinLines(ScannedCodelines(left)) = prefix

-----------------------------------------------------------------------------
\* the operations of a View that reach the native layer
ReachesNative ==
    view.op \in DOMAIN SingleCallMethods
                    \cup {"setName", "setScene", "setAmbientOcclusionOptions"}

\* C28: Destroyed View guard. getNativeObject() throws IllegalStateException
\* exactly when the native handle is 0; an operation that reaches the native
\* layer throws exactly when the handle is 0 and then invokes nothing, so it
\* throws whenever clearNativeObject() has been called before; and no native
\* method is ever invoked with handle 0.
C28_DestroyedViewGuard ==
    /\ view.op = "getNativeObject" => (view.thrown <=> view.mNativeObject = 0)
    /\ ReachesNative
          => /\ view.thrown <=> view.mNativeObject = 0
             /\ view.thrown => view.natives = <<>>
             /\ ~view.thrown => view.natives # <<>>
             /\ view.cleared => view.thrown
    /\ view.cleared => view.mNativeObject = 0
    /\ \A k \in 1..Len(view.natives) : view.natives[k].handle # 0

\* setScene was called on a View that had been handed to clearNativeObject()
C28_Witness ==
    /\ view.cleared /\ view.op = "setScene" /\ view.thrown
    /\ view.mScene # 0

-----------------------------------------------------------------------------
\* C29: FNodeManager::terminate always terminates and leaves the component
\* manager empty, whatever number of node components were registered: every
\* iteration of its loop removes exactly the last component, so that the
\* count goes down by one, and on an empty manager it does nothing.
C29_TerminateEmpties ==
    /\ (pc = "terminate") ~> (pc = "returned" /\ manager = <<>>)
    /\ [][(pc = "while" /\ pc' = "while")
             => manager' = SubSeq(manager, 1, Len(manager) - 1)]_vars
    /\ [][(pc = "terminate" /\ manager = <<>>)
             => (pc' = "returned" /\ manager' = <<>>)]_vars
    /\ [](pc = "returned" => manager = <<>>)

\* terminate() has returned after removing as many components as a manager
\* of this size can hold
C29_Witness ==
    /\ pc = "returned" /\ manager = <<>>
    /\ i = MaxComponents

====
